---- MODULE Spec2Model ----
(***************************************************************************)
(* Authentication/session lifecycle of the delivery backend: register,    *)
(* login, refresh-token rotation and logout (auth.controller.ts,          *)
(* auth.utils.ts, User.model.ts).                                         *)
(*                                                                         *)
(* Every handler is an async function.  Node runs the code between two    *)
(* awaits without interruption, and every await on the store is a point   *)
(* where other requests run.  One action of the model is therefore one    *)
(* store operation taking effect, together with the synchronous code      *)
(* that follows it up to the next await; the arrival of a request is      *)
(* taken together with its first store operation.                         *)
(*                                                                         *)
(* The store is MongoDB through Mongoose.  The User schema does not       *)
(* switch the version key off, so document.save() of a loaded document    *)
(* sends a delta:                                                         *)
(*   - only push() calls on refreshTokens: an atomic $push of the pushed  *)
(*     entries plus $inc __v, with no condition on __v;                   *)
(*   - an assignment to refreshTokens, or a shift(): a $set of the whole  *)
(*     array plus $inc __v, conditioned on the __v that was read; when    *)
(*     no document matches, save() rejects with a VersionError.           *)
(***************************************************************************)
EXTENDS Integers, Sequences, FiniteSets, TLC

\* ------------------------------------------------------------- bounds
\* concurrent requests in flight
MaxProcs == 2
\* refresh-token values that crypto.randomBytes hands out in one run
MaxTok == 3
\* the same, in the runs of one user that fill the token list
CapTok == 6
\* last instant of the clock
MaxTime == 2
\* orders that createOrder stores in one run
MaxOrders == 1

\* ------------------------------------------------- program constants
\* generateRefreshToken: "if (user.refreshTokens.length > 5)"
MaxRefreshTokens == 5
\* generateRefreshToken: expiresAt = now + 7 days; the clock counts in units of 7 days
RefreshTtl == 1
\* createToken: expiresIn "7d", in the same units
AccessTtl == 1

Procs == 1..MaxProcs
Emails == {"a@x.com", "b@x.com"}
OneAccount == {"a@x.com"}
\* the password registered with, and the passwords a login may present
RegisterPasswords == {"secret1"}
Passwords == {"secret1", "wrong"}
\* req.body.refreshToken missing or empty
NoTok == 0
\* a well-formed value that randomBytes never produced
Bogus == MaxTok + CapTok + 1

\* ------------------------------------------------------------ messages
MsgConflict == "El correo ya esta registrado."
MsgInternal == "Error interno del servidor."
MsgCredentials == "Credenciales invalidas."
MsgLogoutNoToken == "Refresh Token necesario para la revocacion."
MsgRefreshNoToken == "Refresh Token requerido."
MsgRefreshNotFound == "Token de refresco invalido o no encontrado."
MsgRefreshExpired == "Token de refresco expirado. Por favor, inicie sesion de nuevo."
MsgRefreshOk == "Tokens renovados exitosamente."
MsgRefreshInternal == "Error interno del servidor al renovar token."
MsgNone == ""
MsgNoHeader == "Acceso denegado. No se proporciono token de autenticacion."
MsgBadFormat == "Formato de token invalido. Debe ser \"Bearer <token>\"."
MsgBadToken == "Token invalido o expirado."
MsgNoProfile == "Perfil de usuario no encontrado."

VARIABLES
    db,        \* the users collection: sequence of user documents, _id = index
    now,       \* Date.now()
    nextTok,   \* next value crypto.randomBytes(32) produces
    budget,    \* how many more values crypto.randomBytes(32) produces in this run
    req,       \* per request slot: the handler in flight, its position and locals
    res,       \* the response the last step sent, with the request it answers
    rotated,   \* history: refresh tokens a refreshToken request answered 200 for
    orders,    \* the orders collection: sequence of order documents
    stores     \* the stores collection: sequence of store documents

vars == <<db, now, nextTok, budget, req, res, rotated, orders, stores>>

\* ------------------------------------------------------------ password
\* bcrypt.hash: one more round of hashing over the value given
bcryptHash(p) == [plain |-> p.plain, rounds |-> p.rounds + 1]

Plain(s) == [plain |-> s, rounds |-> 0]

\* a hook that hashes on every save
PreSavePassword_EverySave(password, isModified) == bcryptHash(password)

\* UserSchema.pre("save"): hash only when the password path was modified
PreSavePassword(password, isModified) ==
    IF isModified THEN bcryptHash(password) ELSE password

\* UserSchema.methods.comparePassword: bcrypt.compare(candidate, this.password)
comparePassword(candidate, stored) == stored = bcryptHash(Plain(candidate))

\* ------------------------------------------------------ refresh tokens
TokenValues(list) == {list[i].token : i \in 1..Len(list)}

\* a filter that keeps every entry
FilterOut_KeepsAll(list, value) == list

\* user.refreshTokens.filter((t) => t.token !== value)
FilterOut(list, value) == SelectSeq(list, LAMBDA t : t.token # value)

\* identifiers of the users whose list holds an entry with this value
Holders(value) == {u \in 1..Len(db) : value \in TokenValues(db[u].refreshTokens)}

\* User.findOne({"refreshTokens.token": value}): 0 when nothing matches
FindByRefreshToken(value) ==
    IF Holders(value) = {} THEN 0 ELSE CHOOSE u \in Holders(value) : TRUE

\* User.findOne({email}): 0 when nothing matches
FindByEmail(email) ==
    IF \E u \in 1..Len(db) : db[u].email = email
    THEN CHOOSE u \in 1..Len(db) : db[u].email = email
    ELSE 0

\* a users collection without the unique index on email
DuplicateKey_NoIndex(email) == FALSE

\* the unique index on email rejects an insert (E11000 duplicate key)
DuplicateKey(email) == FindByEmail(email) # 0

\* user.refreshTokens.find((t) => t.token === value), for a list that holds it
FindEntry(list, value) ==
    list[CHOOSE i \in 1..Len(list) : list[i].token = value]

\* ------------------------------------------- the in-memory document
\* atomOp is what Mongoose registered for the refreshTokens path since load,
\* isModifiedPassword is isModified("password")
NoDoc ==
    [uid |-> 0, email |-> "", password |-> Plain(""), refreshTokens |-> <<>>, v |-> 0,
     atomOp |-> "none", pushed |-> <<>>, isModifiedPassword |-> FALSE]

\* the document a query returns
Load(u) ==
    [uid |-> u, email |-> db[u].email, password |-> db[u].password,
     refreshTokens |-> db[u].refreshTokens, v |-> db[u].v,
     atomOp |-> "none", pushed |-> <<>>, isModifiedPassword |-> FALSE]

\* user.refreshTokens = list
DocAssign(doc, list) ==
    [doc EXCEPT !.refreshTokens = list, !.atomOp = "$set", !.pushed = <<>>]

\* a push() that registers $push over a $set registered before it
DocPush_ForgetsSet(doc, entry) ==
    [doc EXCEPT !.refreshTokens = Append(@, entry),
                !.atomOp = "$push",
                !.pushed = Append(@, entry)]

\* user.refreshTokens.push(entry)
DocPush(doc, entry) ==
    [doc EXCEPT !.refreshTokens = Append(@, entry),
                !.atomOp = IF @ = "$set" THEN "$set" ELSE "$push",
                !.pushed = IF doc.atomOp = "$set" THEN <<>> ELSE Append(@, entry)]

\* user.refreshTokens.shift()
DocShift(doc) ==
    [doc EXCEPT !.refreshTokens = Tail(@), !.atomOp = "$set", !.pushed = <<>>]

\* an issue that replaces the list by the new entry
generateRefreshToken_Replaces(doc, tokenValue, t) ==
    DocAssign(doc, <<[token |-> tokenValue, expiresAt |-> t + RefreshTtl,
                      createdAt |-> t]>>)

\* generateRefreshToken up to its await: push the entry, drop the first when
\* more than five are held
generateRefreshToken(doc, tokenValue, t) ==
    LET pushedDoc == DocPush(doc, [token |-> tokenValue,
                                   expiresAt |-> t + RefreshTtl,
                                   createdAt |-> t])
    IN  IF Len(pushedDoc.refreshTokens) > MaxRefreshTokens
        THEN DocShift(pushedDoc)
        ELSE pushedDoc

\* ----------------------------------------------------- document.save()
\* a save() whose update never carries the condition on __v
SaveMatches_Unversioned(doc) == TRUE

\* whether the update that save() sends matches a document
SaveMatches(doc) == doc.atomOp # "$set" \/ db[doc.uid].v = doc.v

\* the collection after the pre("save") hook ran and the update of save() was
\* applied; the password is part of the update when the hook changed it
SaveApply(doc) ==
    [db EXCEPT ![doc.uid] =
        [@ EXCEPT !.password =
                      LET hooked == PreSavePassword(doc.password, doc.isModifiedPassword)
                      IN  IF hooked = doc.password THEN @ ELSE hooked,
                  !.refreshTokens =
                      IF doc.atomOp = "$set" THEN doc.refreshTokens
                      ELSE IF doc.atomOp = "$push" THEN @ \o doc.pushed
                      ELSE @,
                  !.v = IF doc.atomOp = "none" THEN @ ELSE @ + 1]]

\* ---------------------------------------------------- user projections
\* the paths of UserSchema, with those that Mongoose adds
SchemaPaths ==
    {"_id", "email", "password", "name", "phone", "role", "createdAt",
     "refreshTokens", "updatedAt", "__v"}

\* password: { select: false }
DeselectedByDefault == {"password"}

\* a projection that returns the whole document
Select_WholeDocument(projection) == SchemaPaths

\* Query.select(projection) over a user: "" is a query without select()
Select(projection) ==
    IF projection = "+password" THEN SchemaPaths
    ELSE IF projection = "-password" THEN (SchemaPaths \ DeselectedByDefault) \ {"password"}
    ELSE SchemaPaths \ DeselectedByDefault

\* the user object that register and login build for their 200
SessionUser == {"_id", "name", "role", "email"}

\* ------------------------------------------------------------ requests
Idle ==
    [op |-> "none", pc |-> "idle", password |-> "", tok |-> NoTok,
     doc |-> NoDoc, newTok |-> NoTok, late |-> FALSE, raced |-> FALSE,
     user |-> 0, orderId |-> "", status |-> ""]

\* req.body of a request to the order or store routes; "" is a field left out,
\* hasItems tells whether items was sent
NoBody ==
    [storeId |-> "", deliveryAddress |-> "", hasItems |-> FALSE, items |-> <<>>,
     status |-> "", storeName |-> ""]

\* what a response tells about a request to the order or store routes: the
\* request line and body, the handler that took it, and the order data sent
NoShop ==
    [method |-> "", path |-> <<>>, handler |-> "none", body |-> NoBody,
     orderId |-> "", total |-> 0, orderStatus |-> "", orderIds |-> <<>>]

\* header is the Authorization header of a protected request, user is
\* req.user.userId, handlerRan tells that next() was called, userPaths are the
\* paths of a user document that the body carries
NoRes ==
    [op |-> "none", tok |-> NoTok, status |-> 0, message |-> MsgNone,
     refreshToken |-> NoTok, branch |-> "none", late |-> FALSE, raced |-> FALSE,
     header |-> <<>>, user |-> 0, handlerRan |-> FALSE, userPaths |-> {},
     shop |-> NoShop]

\* res.status(status).json(...) for the request r
Reply(r, status, message, token, branch) ==
    [op |-> r.op, tok |-> r.tok, status |-> status, message |-> message,
     refreshToken |-> token, branch |-> branch, late |-> r.late, raced |-> r.raced,
     header |-> <<>>, user |-> 0, handlerRan |-> FALSE, userPaths |-> {},
     shop |-> NoShop]

\* a request of handler op arriving in a free slot
Arrive(op, token) == [Idle EXCEPT !.op = op, !.tok = token]

\* the slot an arriving request takes: the first one free
Free(p) == req[p].pc = "idle" /\ \A q \in 1..(p - 1) : req[q].pc # "idle"

Init ==
    /\ db = <<>>
    /\ now = 0
    /\ nextTok = 1
    /\ budget = MaxTok
    /\ req = [p \in Procs |-> Idle]
    /\ res = NoRes
    /\ rotated = {}
    /\ orders = <<>>
    /\ stores = <<>>

\* time passes
Tick ==
    /\ now < MaxTime
    /\ now' = now + 1
    /\ res' = NoRes
    /\ UNCHANGED <<db, nextTok, budget, req, rotated, orders, stores>>

\* -------------------------------------------------------------- register
\* POST /auth/register: User.findOne({email}) answers; 409 when the email is
\* taken, else new User(...) and save()
RegisterFind(p, email, password) ==
    /\ Free(p)
    /\ IF FindByEmail(email) # 0
       THEN /\ res' = Reply(Arrive("register", NoTok), 409, MsgConflict, NoTok, "conflict")
            /\ UNCHANGED req
       ELSE /\ req' = [req EXCEPT ![p] =
                          [Arrive("register", NoTok) EXCEPT
                              !.pc = "insert", !.password = password,
                              !.doc = [NoDoc EXCEPT !.email = email]]]
            /\ res' = NoRes
    /\ UNCHANGED <<db, now, nextTok, budget, rotated, orders, stores>>

\* user.save() inserts (the unique index rejects a duplicate email; the body
\* names no role, so that role is "client"), then
\* createToken and generateRefreshToken run up to the second save()
RegisterInsert(p) ==
    /\ req[p].op = "register" /\ req[p].pc = "insert"
    /\ IF DuplicateKey(req[p].doc.email)
       THEN /\ res' = Reply(req[p], 500, MsgInternal, NoTok, "duplicateKey")
            /\ req' = [req EXCEPT ![p] = Idle]
            /\ UNCHANGED <<db, nextTok, budget>>
       ELSE /\ budget > 0
            /\ db' = Append(db, [email |-> req[p].doc.email,
                                 password |-> PreSavePassword(Plain(req[p].password), TRUE),
                                 refreshTokens |-> <<>>,
                                 v |-> 0,
                                 role |-> "client"])
            /\ req' = [req EXCEPT ![p] =
                          [@ EXCEPT !.pc = "issueSave",
                                    !.password = "",
                                    !.newTok = nextTok,
                                    !.doc = generateRefreshToken(
                                                [NoDoc EXCEPT
                                                    !.uid = Len(db) + 1,
                                                    !.password = PreSavePassword(
                                                        Plain(req[p].password), TRUE)],
                                                nextTok, now)]]
            /\ nextTok' = nextTok + 1 /\ budget' = budget - 1
            /\ res' = NoRes
    /\ UNCHANGED <<now, rotated, orders, stores>>

\* the save() of generateRefreshToken takes effect; register, login and
\* refreshToken then answer 200 with the new token, or 500 from their catch
IssueSave(p) ==
    /\ req[p].pc = "issueSave"
    /\ IF SaveMatches(req[p].doc)
       THEN /\ db' = SaveApply(req[p].doc)
            /\ res' = [Reply(req[p], 200,
                             IF req[p].op = "refresh" THEN MsgRefreshOk ELSE MsgNone,
                             req[p].newTok, "ok")
                          EXCEPT !.userPaths = IF req[p].op = "refresh" THEN {}
                                               ELSE SessionUser]
            /\ rotated' = IF req[p].op = "refresh"
                          THEN rotated \cup {req[p].tok} ELSE rotated
       ELSE /\ res' = Reply(req[p], 500,
                            IF req[p].op = "refresh" THEN MsgRefreshInternal
                            ELSE MsgInternal,
                            NoTok, "versionError")
            /\ UNCHANGED <<db, rotated>>
    /\ req' = [req EXCEPT ![p] = Idle]
    /\ UNCHANGED <<now, nextTok, budget, orders, stores>>

\* ----------------------------------------------------------------- login
\* a login that tells the caller that the email is unknown
LoginNoUser_NotFound(r) == Reply(r, 404, "Usuario no encontrado.", NoTok, "noUser")

\* login: if (!user) return res.status(401).json(...)
LoginNoUser(r) == Reply(r, 401, MsgCredentials, NoTok, "noUser")

\* login: if (!isMatch) return res.status(401).json(...)
LoginBadPassword(r) == Reply(r, 401, MsgCredentials, NoTok, "badPassword")

\* POST /auth/login: User.findOne({email}) answers; 401 when no user has the
\* email, else await comparePassword
LoginFind(p, email, password) ==
    /\ Free(p)
    /\ IF FindByEmail(email) = 0
       THEN /\ res' = LoginNoUser(Arrive("login", NoTok))
            /\ UNCHANGED req
       ELSE /\ req' = [req EXCEPT ![p] =
                          [Arrive("login", NoTok) EXCEPT
                              !.pc = "compare", !.password = password,
                              !.doc = Load(FindByEmail(email))]]
            /\ res' = NoRes
    /\ UNCHANGED <<db, now, nextTok, budget, rotated, orders, stores>>

\* comparePassword answers: 401 on a mismatch, else createToken and
\* generateRefreshToken run up to its save()
LoginCompare(p) ==
    /\ req[p].op = "login" /\ req[p].pc = "compare"
    /\ IF comparePassword(req[p].password, req[p].doc.password)
       THEN /\ budget > 0
            /\ req' = [req EXCEPT ![p] =
                          [@ EXCEPT !.pc = "issueSave",
                                    !.password = "",
                                    !.newTok = nextTok,
                                    !.doc = generateRefreshToken(req[p].doc, nextTok, now)]]
            /\ nextTok' = nextTok + 1 /\ budget' = budget - 1
            /\ res' = NoRes
       ELSE /\ res' = LoginBadPassword(req[p])
            /\ req' = [req EXCEPT ![p] = Idle]
            /\ UNCHANGED <<nextTok, budget>>
    /\ UNCHANGED <<db, now, rotated, orders, stores>>

\* ---------------------------------------------------------------- logout
\* a logout that tells the caller that the token matched nothing
LogoutNoMatch_NotFound(r) == Reply(r, 404, "Token no encontrado.", NoTok, "noMatch")

\* logout: no user holds the token, res.status(200).send()
LogoutNoMatch(r) == Reply(r, 200, MsgNone, NoTok, "noMatch")

\* POST /auth/logout: 400 without a token; else
\* User.findOne({"refreshTokens.token": refreshToken}) answers: 200 when no
\* user holds the token, else filter it out of the loaded list and save()
LogoutFind(p, token) ==
    /\ Free(p)
    /\ LET u == FindByRefreshToken(token)
       IN  IF token = NoTok
           THEN /\ res' = Reply(Arrive("logout", token), 400, MsgLogoutNoToken,
                                NoTok, "noToken")
                /\ UNCHANGED req
           ELSE IF u = 0
           THEN /\ res' = LogoutNoMatch(Arrive("logout", token))
                /\ UNCHANGED req
           ELSE /\ req' = [req EXCEPT ![p] =
                              [Arrive("logout", token) EXCEPT
                                  !.pc = "logoutSave",
                                  !.doc = DocAssign(Load(u),
                                      FilterOut(db[u].refreshTokens, token))]]
                /\ res' = NoRes
    /\ UNCHANGED <<db, now, nextTok, budget, rotated, orders, stores>>

\* the save() of logout takes effect: 200, or 500 from the catch
LogoutSave(p) ==
    /\ req[p].pc = "logoutSave"
    /\ IF SaveMatches(req[p].doc)
       THEN /\ db' = SaveApply(req[p].doc)
            /\ res' = Reply(req[p], 200, MsgNone, NoTok, "ok")
       ELSE /\ res' = Reply(req[p], 500, MsgInternal, NoTok, "versionError")
            /\ UNCHANGED db
    /\ req' = [req EXCEPT ![p] = Idle]
    /\ UNCHANGED <<now, nextTok, budget, rotated, orders, stores>>

\* ---------------------------------------------------------- refreshToken
\* storedToken.expiresAt.getTime() < Date.now()
IsExpired(entry, t) == entry.expiresAt < t

\* another refreshToken request looked the same token up, found it valid and
\* has not saved yet
RacesWith(q, token) ==
    req[q].op = "refresh" /\ req[q].pc = "issueSave" /\ req[q].tok = token

\* POST /auth/refresh-token: 401 without a token; else
\* User.findOne({"refreshTokens.token": clientRefreshToken}) answers: 403
\* when no user holds the token; an expired entry is filtered out and saved;
\* a valid one is filtered out and replaced by generateRefreshToken, up to
\* its save()
RefreshFind(p, token) ==
    /\ Free(p)
    /\ LET u == FindByRefreshToken(token)
           r == [Arrive("refresh", token) EXCEPT !.late = token \in rotated]
       IN  IF token = NoTok
           THEN /\ res' = Reply(r, 401, MsgRefreshNoToken, NoTok, "noToken")
                /\ UNCHANGED <<req, nextTok, budget>>
           ELSE IF u = 0
           THEN /\ res' = Reply(r, 403, MsgRefreshNotFound, NoTok, "notFound")
                /\ UNCHANGED <<req, nextTok, budget>>
           ELSE IF IsExpired(FindEntry(db[u].refreshTokens, token), now)
           THEN /\ req' = [req EXCEPT ![p] =
                              [r EXCEPT !.pc = "cleanupSave",
                                        !.doc = DocAssign(Load(u),
                                            FilterOut(db[u].refreshTokens, token))]]
                /\ res' = NoRes /\ UNCHANGED <<nextTok, budget>>
           ELSE /\ budget > 0
                /\ req' = [q \in Procs |->
                              IF q = p
                              THEN [r EXCEPT
                                       !.pc = "issueSave",
                                       !.newTok = nextTok,
                                       !.raced = \E o \in Procs : RacesWith(o, token),
                                       !.doc = generateRefreshToken(
                                                   DocAssign(Load(u),
                                                       FilterOut(db[u].refreshTokens,
                                                                 token)),
                                                   nextTok, now)]
                              ELSE IF RacesWith(q, token)
                              THEN [req[q] EXCEPT !.raced = TRUE]
                              ELSE req[q]]
                /\ nextTok' = nextTok + 1 /\ budget' = budget - 1
                /\ res' = NoRes
    /\ UNCHANGED <<db, now, rotated, orders, stores>>

\* the save() that drops an expired entry takes effect: 403, or 500 from the catch
RefreshCleanupSave(p) ==
    /\ req[p].pc = "cleanupSave"
    /\ IF SaveMatches(req[p].doc)
       THEN /\ db' = SaveApply(req[p].doc)
            /\ res' = Reply(req[p], 403, MsgRefreshExpired, NoTok, "expired")
       ELSE /\ res' = Reply(req[p], 500, MsgRefreshInternal, NoTok, "versionError")
            /\ UNCHANGED db
    /\ req' = [req EXCEPT ![p] = Idle]
    /\ UNCHANGED <<now, nextTok, budget, rotated, orders, stores>>

\* --------------------------------------------------------- access tokens
\* one part of an Authorization header that is not a JWT
Word(s) == [text |-> s, userId |-> 0, exp |-> 0, sig |-> ""]

\* createToken: jwt.sign({userId}, ENV.JWT_SECRET, {expiresIn: "7d"}) at instant t
createToken(userId, t) ==
    [text |-> "jwt", userId |-> userId, exp |-> t + AccessTtl, sig |-> "JWT_SECRET"]

\* a verification that does not look at exp
jwtVerify_IgnoresExpiry(token, t) == token.text = "jwt" /\ token.sig = "JWT_SECRET"

\* a verification that also asks for a live session of the user
jwtVerify_NeedsSession(token, t) ==
    /\ token.text = "jwt" /\ token.sig = "JWT_SECRET" /\ t < token.exp
    /\ token.userId \in 1..Len(db) /\ db[token.userId].refreshTokens # <<>>

\* jwt.verify(token, ENV.JWT_SECRET) does not throw: a JWT signed with the
\* secret that has not reached exp
jwtVerify(token, t) ==
    token.text = "jwt" /\ token.sig = "JWT_SECRET" /\ t < token.exp

\* the outcome of a rejection by the middleware
Rejected(status, message, branch) ==
    [next |-> FALSE, status |-> status, message |-> message, branch |-> branch,
     user |-> 0]

\* isAuthenticated over authHeader.split(" ") at instant t; an absent header
\* is the empty sequence
isAuthenticated(header, t) ==
    IF header = <<>>
    THEN Rejected(401, MsgNoHeader, "noHeader")
    ELSE LET token == IF Len(header) >= 2 THEN header[2] ELSE Word("")
         IN  IF token.text = ""
             THEN Rejected(401, MsgBadFormat, "badFormat")
             ELSE IF jwtVerify(token, t)
             THEN [next |-> TRUE, status |-> 0, message |-> MsgNone, branch |-> "next",
                   user |-> token.userId]
             ELSE Rejected(403, MsgBadToken, "badToken")

\* the access tokens the server can have signed by now for the users it has
SignedTokens == {createToken(u, t) : u \in 1..Len(db), t \in 0..now}

\* the same payloads signed with another secret
ForgedTokens == {[k EXCEPT !.sig = "other"] : k \in SignedTokens}

\* what a client can put where the token goes
SentTokens == SignedTokens \cup ForgedTokens \cup {Word("garbage")}

\* Authorization headers, split at the spaces
Headers ==
    {<<>>, <<Word("Bearer")>>, <<Word("Bearer"), Word(""), Word("garbage")>>}
        \cup {<<k>> : k \in SentTokens}
        \cup {<<Word(scheme), k>> : scheme \in {"Bearer", "Basic"}, k \in SentTokens}

\* GET /auth/me: isAuthenticated, then getMe up to the answer of
\* getUserInfoById (User.findById(userId).select("-password"))
GetMe(header) ==
    /\ LET auth == isAuthenticated(header, now)
           r == Arrive("getMe", NoTok)
       IN  res' = IF ~auth.next
                  THEN [Reply(r, auth.status, auth.message, NoTok, auth.branch)
                           EXCEPT !.header = header]
                  ELSE IF auth.user \in 1..Len(db)
                  THEN [Reply(r, 200, MsgNone, NoTok, "ok")
                           EXCEPT !.header = header, !.user = auth.user,
                                  !.handlerRan = TRUE,
                                  !.userPaths = Select("-password")]
                  ELSE [Reply(r, 404, MsgNoProfile, NoTok, "noProfile")
                           EXCEPT !.header = header, !.user = auth.user,
                                  !.handlerRan = TRUE]
    /\ UNCHANGED <<db, now, nextTok, budget, req, rotated, orders, stores>>

\* the tokens a client can present: none, one it was given, one never issued
Presentable == {NoTok, Bogus} \cup 1..(nextTok - 1)

\* ------------------------------------------------------- store failures
\* what a rejected store operation throws
StoreErrors ==
    {"MongoNetworkError: connection closed",
     "MongooseError: Operation users.findOne() buffering timed out"}

\* a catch that sends the error to the client
CatchMessage_SendsError(op, error) == error

\* catch (error): console.error(..., error) and a fixed message
CatchMessage(op, error) ==
    IF op = "refresh" THEN MsgRefreshInternal ELSE MsgInternal

\* a store operation of a request in flight rejects (connection lost, timeout):
\* the catch of the handler answers 500 and nothing is written
StoreFails(p) ==
    /\ req[p].pc # "idle"
    /\ \E error \in StoreErrors :
          res' = Reply(req[p], 500, CatchMessage(req[p].op, error),
                       NoTok, "storeUnavailable")
    /\ req' = [req EXCEPT ![p] = Idle]
    /\ UNCHANGED <<db, now, nextTok, budget, rotated, orders, stores>>

\* the first findOne of an arriving request rejects
StoreFailsOnArrival(op, token) ==
    /\ op \in {"register", "login"} <=> token = NoTok
    /\ \E error \in StoreErrors :
          res' = Reply(Arrive(op, token), 500, CatchMessage(op, error),
                       NoTok, "storeUnavailable")
    /\ UNCHANGED <<db, now, nextTok, budget, req, rotated, orders, stores>>

\* GET /auth/me passes isAuthenticated and the findById of getUserInfoById
\* rejects: the catch of getMe answers 500
GetMeStoreFails(header) ==
    /\ isAuthenticated(header, now).next
    /\ \E error \in StoreErrors :
          res' = [Reply(Arrive("getMe", NoTok), 500, CatchMessage("getMe", error),
                        NoTok, "storeUnavailable")
                     EXCEPT !.header = header,
                            !.user = isAuthenticated(header, now).user,
                            !.handlerRan = TRUE]
    /\ UNCHANGED <<db, now, nextTok, budget, req, rotated, orders, stores>>

\* ------------------------------------------------- orders and stores
\* OrderSchema.status: enum
OrderStatuses ==
    {"PENDING", "CONFIRMED", "SEARCHING_COURIER", "ON_DELIVERY", "DELIVERED",
     "CANCELLED"}

\* the _id of the k-th order document, as it appears in a path
OrderIdOf == <<"o1", "o2", "o3">>

\* path segments sent where an order id goes: "my" is no ObjectId, "o0" is one
\* that no order has
PathIds == {"my", "o0"} \cup {OrderIdOf[k] : k \in 1..MaxOrders}

\* whether Mongoose casts the string to an ObjectId
IsObjectId(id) == id # "my"

\* Order.findById(id) for a castable id: 0 when nothing matches
FindOrder(id) ==
    IF \E k \in 1..Len(orders) : OrderIdOf[k] = id
    THEN CHOOSE k \in 1..Len(orders) : OrderIdOf[k] = id
    ELSE 0

\* order.routes.ts: the routes in the order they are registered in
OrderRoutes ==
    << [method |-> "POST", pattern |-> <<>>, handler |-> "createOrder"],
       [method |-> "GET", pattern |-> <<":id">>, handler |-> "getOrderDetails"],
       [method |-> "PATCH", pattern |-> <<":id", "status">>,
        handler |-> "updateOrderStatus"],
       [method |-> "GET", pattern |-> <<"my">>, handler |-> "getUserOrders"] >>

\* whether a route takes the request: same method, and every segment equal to
\* the pattern's or bound to a parameter
Matches(route, method, path) ==
    /\ route.method = method
    /\ Len(route.pattern) = Len(path)
    /\ \A i \in 1..Len(path) : route.pattern[i] = ":id" \/ route.pattern[i] = path[i]

\* Express hands the request to the first route that takes it
Dispatch(routes, method, path) ==
    LET hits == {i \in 1..Len(routes) : Matches(routes[i], method, path)}
    IN  IF hits = {} THEN "none"
        ELSE routes[CHOOSE i \in hits : \A j \in hits : i <= j].handler

Item(quantity, price) == [quantity |-> quantity, price |-> price]

ItemLists == {<<>>, <<Item(1, 2)>>, <<Item(2, 3), Item(1, 1)>>}

\* a body of POST /orders with every field
FullBody(items) ==
    [NoBody EXCEPT !.storeId = "s1", !.deliveryAddress = "street",
                   !.hasItems = TRUE, !.items = items]

\* the bodies sent with POST /orders: complete ones, and ones that leave out
\* the store, the address or the items
OrderBodies ==
    {FullBody(i) : i \in ItemLists}
    \cup {[FullBody(<<Item(1, 2)>>) EXCEPT !.storeId = ""],
          [FullBody(<<Item(1, 2)>>) EXCEPT !.deliveryAddress = ""],
          [FullBody(<<>>) EXCEPT !.hasItems = FALSE]}

\* the bodies sent with PATCH /orders/:id/status
StatusBodies == {[NoBody EXCEPT !.status = t] : t \in {"", "CONFIRMED", "DELIVERED", "SHIPPED"}}

\* the bodies sent with POST /store
StoreBodies == {[NoBody EXCEPT !.storeName = n] : n \in {"", "Tienda"}}

\* the requests sent to the order routes
OrderRequests ==
    {[method |-> "POST", path |-> <<>>, body |-> b] : b \in OrderBodies}
    \cup {[method |-> "GET", path |-> <<id>>, body |-> NoBody] : id \in PathIds}
    \cup {[method |-> "PATCH", path |-> <<id, "status">>, body |-> b] :
             id \in PathIds \ {"my"}, b \in StatusBodies}
    \cup {[method |-> "GET", path |-> <<>>, body |-> NoBody]}

\* items.reduce((sum, item) => sum + item.quantity * item.price, 0)
RECURSIVE TotalAmount(_)
TotalAmount(items) ==
    IF items = <<>> THEN 0
    ELSE Head(items).quantity * Head(items).price + TotalAmount(Tail(items))

\* an ObjectId held in a document
ObjectIdRef(id) == [populated |-> FALSE, _id |-> id, paths |-> {}]

\* populate(path, fields) over a reference to a user
Populate(ref, fields) ==
    [populated |-> TRUE, _id |-> ref._id, paths |-> {"_id"} \cup fields]

\* the 24 hex digits of an ObjectId
HexString(id) == [kind |-> "hex", _id |-> id]

\* toString() of a path of a document: the hex digits of an ObjectId, the
\* inspect() text of a populated document
toString(value) ==
    IF value.populated THEN [kind |-> "inspect", _id |-> value._id]
    ELSE HexString(value._id)

\* req.user?.role after isAuthenticated: req.user = { userId: decoded.userId }
RoleOnRequest(auth) ==
    LET user == [userId |-> auth.user]
    IN  IF "role" \in DOMAIN user THEN user.role ELSE "undefined"

\* a lookup that takes every requester for an administrator
StoredRole_Admin(userId) == "admin"

\* (await User.findById(userId))?.role
StoredRole(userId) ==
    IF userId \in 1..Len(db) THEN db[userId].role ELSE "undefined"

\* the response of a request to the order or store routes
ShopReply(request, handler, header, auth, status, message, branch) ==
    [Reply(Arrive(handler, NoTok), status, message, NoTok, branch)
        EXCEPT !.header = header,
               !.user = auth.user,
               !.handlerRan = auth.next,
               !.shop = [NoShop EXCEPT !.method = request.method,
                                       !.path = request.path,
                                       !.handler = handler,
                                       !.body = request.body]]

\* createOrder: the validation runs before the try; items.length of a body
\* without items throws there, so that the promise of the handler rejects:
\* Express 4 sends nothing, Express 5 hands the error to its error handler
createOrder(reply, body) ==
    IF body.storeId = "" \/ body.deliveryAddress = ""
    THEN /\ res' = [reply EXCEPT !.status = 400, !.branch = "missingFields"]
         /\ UNCHANGED <<orders, req>>
    ELSE IF ~body.hasItems
    THEN /\ \E outcome \in {"noResponse", "errorHandler"} :
               res' = [reply EXCEPT
                          !.status = IF outcome = "noResponse" THEN 0 ELSE 500,
                          !.branch = outcome]
         /\ UNCHANGED <<orders, req>>
    ELSE IF Len(body.items) = 0
    THEN /\ res' = [reply EXCEPT !.status = 400, !.branch = "missingFields"]
         /\ UNCHANGED <<orders, req>>
    ELSE /\ Len(orders) < MaxOrders
         /\ orders' = Append(orders,
                [client |-> ObjectIdRef(reply.user),
                 store |-> body.storeId,
                 deliveryAddress |-> body.deliveryAddress,
                 items |-> body.items,
                 totalAmount |-> TotalAmount(body.items),
                 status |-> "PENDING"])
         /\ res' = [reply EXCEPT !.status = 201, !.branch = "ok",
                                 !.shop.orderId = OrderIdOf[Len(orders) + 1],
                                 !.shop.total = TotalAmount(body.items)]
         /\ UNCHANGED req

\* getOrderDetails: Order.findById(orderId) with client populated, then the
\* comparison of order.client.toString() with the userId of the token
getOrderDetails(reply, id) ==
    /\ IF ~IsObjectId(id)
       THEN res' = [reply EXCEPT !.status = 500, !.message = MsgInternal,
                                 !.branch = "castError"]
       ELSE IF FindOrder(id) = 0
       THEN res' = [reply EXCEPT !.status = 404, !.branch = "noOrder"]
       ELSE LET order == orders[FindOrder(id)]
                client == Populate(order.client, {"name", "email"})
                isClient == toString(client) = HexString(reply.user)
            IN  IF ~isClient
                THEN res' = [reply EXCEPT !.status = 403, !.branch = "notOwner"]
                ELSE res' = [reply EXCEPT !.status = 200, !.branch = "ok",
                                          !.userPaths = client.paths,
                                          !.shop.orderId = id,
                                          !.shop.total = order.totalAmount,
                                          !.shop.orderStatus = order.status]
    /\ UNCHANGED <<orders, req>>

\* the ids of the orders of a client, the last created first
RECURSIVE OrdersOf(_, _)
OrdersOf(userId, k) ==
    IF k = 0 THEN <<>>
    ELSE IF orders[k].client._id = userId
    THEN <<OrderIdOf[k]>> \o OrdersOf(userId, k - 1)
    ELSE OrdersOf(userId, k - 1)

\* getUserOrders: Order.find({client}).sort({createdAt: -1})
getUserOrders(reply) ==
    /\ res' = [reply EXCEPT !.status = 200, !.branch = "ok",
                            !.shop.orderIds = OrdersOf(reply.user, Len(orders))]
    /\ UNCHANGED <<orders, req>>

\* updateOrderStatus up to the answer of User.findById: 400 without a status,
\* 403 unless the stored role is store, courier or admin
updateOrderStatus(p, reply, id, body) ==
    /\ IF body.status = ""
       THEN res' = [reply EXCEPT !.status = 400, !.branch = "noStatus"] /\ UNCHANGED req
       ELSE IF StoredRole(reply.user) \notin {"store", "courier", "admin"}
       THEN res' = [reply EXCEPT !.status = 403, !.branch = "role"] /\ UNCHANGED req
       ELSE /\ req' = [req EXCEPT ![p] =
                          [Arrive("updateOrderStatus", NoTok) EXCEPT
                              !.pc = "update", !.user = reply.user,
                              !.orderId = id, !.status = body.status]]
            /\ res' = NoRes
    /\ UNCHANGED orders

\* a request to the order routes arrives: the router dispatches it,
\* isAuthenticated runs, and the handler runs up to its first answer from
\* the store
OrdersRoute(p, request, header) ==
    /\ Free(p)
    /\ LET handler == Dispatch(OrderRoutes, request.method, request.path)
           auth == isAuthenticated(header, now)
           reply == ShopReply(request, handler, header, auth, 0, MsgNone, "none")
       IN  IF handler = "none"
           THEN /\ res' = [reply EXCEPT !.status = 404, !.branch = "noRoute",
                                        !.user = 0, !.handlerRan = FALSE]
                /\ UNCHANGED <<orders, req>>
           ELSE IF ~auth.next
           THEN /\ res' = [reply EXCEPT !.status = auth.status,
                                        !.message = auth.message,
                                        !.branch = auth.branch]
                /\ UNCHANGED <<orders, req>>
           ELSE CASE handler = "createOrder" -> createOrder(reply, request.body)
                  [] handler = "getOrderDetails" -> getOrderDetails(reply, request.path[1])
                  [] handler = "updateOrderStatus" ->
                         updateOrderStatus(p, reply, request.path[1], request.body)
                  [] handler = "getUserOrders" -> getUserOrders(reply)
    /\ UNCHANGED <<db, now, nextTok, budget, rotated, stores>>

\* Order.findByIdAndUpdate(orderId, {$set: {status}}, {runValidators: true})
\* answers: 500 from the catch for an id that does not cast or a status
\* outside the enum, 404 when no order has the id, else the order is updated
UpdateOrderStatusApply(p) ==
    /\ req[p].op = "updateOrderStatus" /\ req[p].pc = "update"
    /\ LET id == req[p].orderId
           request == [method |-> "PATCH", path |-> <<id, "status">>,
                       body |-> [NoBody EXCEPT !.status = req[p].status]]
           reply == ShopReply(request, "updateOrderStatus", <<>>,
                              [user |-> req[p].user, next |-> TRUE],
                              0, MsgNone, "none")
       IN  IF ~IsObjectId(id)
           THEN /\ res' = [reply EXCEPT !.status = 500, !.message = MsgInternal,
                                        !.branch = "castError"]
                /\ UNCHANGED orders
           ELSE IF req[p].status \notin OrderStatuses
           THEN /\ res' = [reply EXCEPT !.status = 500, !.message = MsgInternal,
                                        !.branch = "validationError"]
                /\ UNCHANGED orders
           ELSE IF FindOrder(id) = 0
           THEN /\ res' = [reply EXCEPT !.status = 404, !.branch = "noOrder"]
                /\ UNCHANGED orders
           ELSE /\ orders' = [orders EXCEPT ![FindOrder(id)].status = req[p].status]
                /\ res' = [reply EXCEPT !.status = 200, !.branch = "ok",
                                        !.shop.orderId = id,
                                        !.shop.orderStatus = req[p].status]
    /\ req' = [req EXCEPT ![p] = Idle]
    /\ UNCHANGED <<db, now, nextTok, budget, rotated, stores>>

\* POST /store: isAuthenticated, then createStore: 403 unless the role on the
\* request is store or admin, 400 for a missing field or for an owner who has
\* a store, else the store is saved
CreateStore(header, body) ==
    /\ LET auth == isAuthenticated(header, now)
           request == [method |-> "POST", path |-> <<>>, body |-> body]
           reply == ShopReply(request, "createStore", header, auth, 0, MsgNone, "none")
           userRole == RoleOnRequest(auth)
       IN  IF ~auth.next
           THEN /\ res' = [reply EXCEPT !.status = auth.status,
                                        !.message = auth.message,
                                        !.branch = auth.branch]
                /\ UNCHANGED stores
           ELSE IF userRole # "store" /\ userRole # "admin"
           THEN /\ res' = [reply EXCEPT !.status = 403, !.branch = "role"]
                /\ UNCHANGED stores
           ELSE IF body.storeName = ""
           THEN /\ res' = [reply EXCEPT !.status = 400, !.branch = "missingFields"]
                /\ UNCHANGED stores
           ELSE IF \E k \in 1..Len(stores) : stores[k].owner = auth.user
           THEN /\ res' = [reply EXCEPT !.status = 400, !.branch = "hasStore"]
                /\ UNCHANGED stores
           ELSE /\ stores' = Append(stores, [name |-> body.storeName,
                                             owner |-> auth.user,
                                             isActive |-> TRUE])
                /\ res' = [reply EXCEPT !.status = 201, !.branch = "ok"]
    /\ UNCHANGED <<db, now, nextTok, budget, req, rotated, orders>>

\* the users of the runs over orders and stores, one of each role
ShopRoles == <<"client", "store", "courier", "admin">>

ShopEmails == <<"a@x.com", "b@x.com", "c@x.com", "d@x.com">>

\* the headers sent to the order and store routes: none, or the access token
\* of a user
ShopHeaders ==
    {<<>>} \cup {<<Word("Bearer"), createToken(u, now)>> : u \in 1..Len(db)}

\* ------------------------------------------------------- specifications
\* the handlers, with the emails that register
Sessions(registering) ==
    \/ \E p \in Procs, e \in registering, w \in RegisterPasswords : RegisterFind(p, e, w)
    \/ \E p \in Procs : RegisterInsert(p)
    \/ \E p \in Procs : IssueSave(p)
    \/ \E p \in Procs, e \in Emails, w \in Passwords : LoginFind(p, e, w)
    \/ \E p \in Procs : LoginCompare(p)
    \/ \E p \in Procs, t \in Presentable : LogoutFind(p, t)
    \/ \E p \in Procs : LogoutSave(p)
    \/ \E p \in Procs, t \in Presentable : RefreshFind(p, t)

\* The session protocol over time for one account: every handler, the clock,
\* and logins for an email nobody registered.
Next ==
    \/ Tick
    \/ Sessions(OneAccount)
    \/ \E p \in Procs : RefreshCleanupSave(p)

Spec == Init /\ [][Next]_vars

\* Two accounts within one unit of the clock (no entry expires).
NextUsers == Sessions(Emails)

SpecUsers == Init /\ [][NextUsers]_vars

\* One account within one unit of the clock, with a store that can fail
\* under any request.
NextFail ==
    \/ Sessions(OneAccount)
    \/ \E p \in Procs : StoreFails(p)
    \/ \E o \in {"register", "login"} : StoreFailsOnArrival(o, NoTok)
    \/ \E o \in {"logout", "refresh"}, t \in Presentable \ {NoTok} :
           StoreFailsOnArrival(o, t)

SpecFail == Init /\ [][NextFail]_vars

\* One account served one request at a time, over time, with the protected
\* route GET /auth/me.
OneAtATime == \A p \in Procs : p > 1 => req'[p].pc = "idle"

NextAuth ==
    \/ Tick
    \/ Sessions(OneAccount) /\ OneAtATime
    \/ \E p \in Procs : RefreshCleanupSave(p)
    \/ \E h \in Headers : GetMe(h)

SpecAuth == Init /\ [][NextAuth]_vars

\* One account served one request at a time by a store that can fail under
\* any request, GET /auth/me included.
NextOutage ==
    \/ Sessions(OneAccount) /\ OneAtATime
    \/ \E p \in Procs : StoreFails(p)
    \/ \E o \in {"register", "login"} : StoreFailsOnArrival(o, NoTok)
    \/ \E o \in {"logout", "refresh"}, t \in Presentable \ {NoTok} :
           StoreFailsOnArrival(o, t)
    \/ \E h \in Headers : GetMe(h)
    \/ \E h \in Headers : GetMeStoreFails(h)

SpecOutage == Init /\ [][NextOutage]_vars

\* Orders and stores: four users, registered with one role each and logged
\* out, send requests to the order and store routes.
InitShop ==
    /\ db = [u \in 1..Len(ShopRoles) |->
                [email |-> ShopEmails[u],
                 password |-> PreSavePassword(Plain("secret1"), TRUE),
                 refreshTokens |-> <<>>,
                 v |-> 2,
                 role |-> ShopRoles[u]]]
    /\ now = 0
    /\ nextTok = Len(ShopRoles) + 1
    /\ budget = 0
    /\ req = [p \in Procs |-> Idle]
    /\ res = NoRes
    /\ rotated = {}
    /\ orders = <<>>
    /\ stores = <<>>

NextShop ==
    \/ (\E p \in Procs, r \in OrderRequests, h \in ShopHeaders : OrdersRoute(p, r, h))
           /\ OneAtATime
    \/ \E p \in Procs : UpdateOrderStatusApply(p)
    \/ \E h \in ShopHeaders, b \in StoreBodies : CreateStore(h, b)

SpecShop == InitShop /\ [][NextShop]_vars

\* One account that registers and then only logs in, with enough token values
\* to fill its list.
InitCap ==
    /\ db = <<>>
    /\ now = 0
    /\ nextTok = 1
    /\ budget = CapTok
    /\ req = [p \in Procs |-> Idle]
    /\ res = NoRes
    /\ rotated = {}
    /\ orders = <<>>
    /\ stores = <<>>

NextCap ==
    \/ \E p \in Procs, e \in OneAccount, w \in RegisterPasswords : RegisterFind(p, e, w)
    \/ \E p \in Procs : RegisterInsert(p)
    \/ \E p \in Procs : IssueSave(p)
    \/ \E p \in Procs, e \in OneAccount, w \in RegisterPasswords : LoginFind(p, e, w)
    \/ \E p \in Procs : LoginCompare(p)

SpecCap == InitCap /\ [][NextCap]_vars

\* ================================================================ claims
\* every refresh-token value some user holds in the collection d
Held(d) == UNION {TokenValues(d[u].refreshTokens) : u \in 1..Len(d)}

\* ---------------------------------------------------------------- C1
\* C1: in every reachable state, under any interleaving of the requests,
\* each user's persisted refreshTokens list holds at most 5 entries.
\* (Refuted under SpecCap: two logins that both load a list of 4 entries
\* each $push one more.)
C1_AtMostFiveEntries ==
    \A u \in 1..Len(db) : Len(db[u].refreshTokens) <= MaxRefreshTokens

\* ---------------------------------------------------------------- C2
\* C2: when two refreshToken requests presenting the same valid, unexpired
\* token race each other, at most one of them is answered 200, and the other
\* finds the token removed and is answered 403.
\* (Refuted: the loser's save() rejects with a VersionError and the catch
\* answers 500.)
C2_RaceLoserNotFound ==
    [][(res'.op = "refresh" /\ res'.raced)
          => \/ res'.status = 200 /\ res'.tok \notin rotated
             \/ res'.status = 403]_vars

\* ---------------------------------------------------------------- C3
\* C3: once a refreshToken request presenting T was answered 200, no
\* refreshToken request presenting T is answered 200 again, and every
\* request presenting T that arrives afterwards is answered 403, whatever
\* happened in between.
C3_NoReplay ==
    /\ [](res.op = "refresh" /\ res.late => res.status = 403)
    /\ [][(res'.op = "refresh" /\ res'.status = 200) => res'.tok \notin rotated]_vars

\* a request replaying a rotated token was turned away
C3_Witness ==
    /\ res.op = "refresh" /\ res.late /\ res.status = 403
    /\ res.tok \in rotated /\ res.tok \notin Held(db)

\* ---------------------------------------------------------------- C4
\* the stored entry of a held token
EntryOf(d, t) ==
    FindEntry(d[CHOOSE u \in 1..Len(d) : t \in TokenValues(d[u].refreshTokens)].refreshTokens, t)

\* C4: a refreshToken request presenting a stored token before its expiry is
\* taken into rotation, and with no other write to that user before its save
\* it is answered 200 with a new value different from the presented one,
\* which replaces the presented one in the list; a following request
\* presenting the rotated-away value is answered 403.
C4_RotationScenario ==
    [][/\ (res'.op = "refresh" /\ res'.status = 200)
             => /\ res'.refreshToken # res'.tok
                /\ res'.refreshToken \notin Held(db) /\ res'.refreshToken \in Held(db')
                /\ res'.tok \in Held(db) /\ res'.tok \notin Held(db')
       /\ (res'.op = "refresh" /\ res'.late) => res'.status = 403
       /\ (res'.op = "refresh" /\ req' = req) => res'.tok \notin Held(db)
       /\ \A p \in Procs :
             /\ (req[p].pc = "idle" /\ req'[p].pc = "cleanupSave")
                    => ~(now < EntryOf(db, req'[p].tok).expiresAt)
             /\ (/\ req[p].op = "refresh" /\ req[p].pc = "issueSave"
                 /\ req'[p].pc = "idle"
                 /\ db[req[p].doc.uid].v = req[p].doc.v)
                    => /\ res'.status = 200
                       /\ res'.refreshToken = req[p].newTok]_vars

\* register handed out 1; refresh(1) gave 2 and refresh(2) gave 3; the request
\* replaying 1 was answered 403
C4_Witness ==
    /\ res.op = "refresh" /\ res.tok = 1 /\ res.late /\ res.status = 403
    /\ rotated = {1, 2}
    /\ Held(db) = {3}

\* ---------------------------------------------------------------- C5
\* the token a step of a logout request is about, NoTok for any other step
LogoutStepToken ==
    IF res'.op = "logout" THEN res'.tok
    ELSE IF \E p \in Procs : req'[p] # req[p] /\ req'[p].op = "logout"
    THEN (CHOOSE r \in {req'[p] : p \in {q \in Procs : req'[q] # req[q]}} : TRUE).tok
    ELSE NoTok

\* C5: a step of a logout request presenting T changes the collection at
\* most by removing the entry with value T from its owner's list: every
\* other entry of that user, also one that a concurrent login or refresh
\* wrote, and every other user's list stay as they are; after the 200 of a
\* logout that found T, T is held by nobody.
C5_LogoutFrame ==
    [][(res'.op = "logout" \/ \E p \in Procs : req'[p] # req[p] /\ req'[p].op = "logout")
          => /\ Len(db') = Len(db)
             /\ \A u \in 1..Len(db) :
                   /\ db'[u].refreshTokens \in
                          {db[u].refreshTokens,
                           SelectSeq(db[u].refreshTokens,
                                     LAMBDA t : t.token # LogoutStepToken)}
                   /\ db'[u].email = db[u].email /\ db'[u].password = db[u].password
             /\ (res'.op = "logout" /\ res'.branch = "ok")
                    => LogoutStepToken \in Held(db) /\ LogoutStepToken \notin Held(db')]_vars

\* a logout removed its token while its owner held another entry, another
\* user held one too, and a login was in flight
C5_Witness ==
    /\ res.op = "logout" /\ res.branch = "ok" /\ res.status = 200
    /\ Len(db) = 2
    /\ \A u \in 1..Len(db) : db[u].refreshTokens # <<>>
    /\ \E p \in Procs : req[p].op = "login" /\ req[p].pc = "compare"

\* ---------------------------------------------------------------- C6
\* C6: when a refresh token is issued for a user who already holds 5 entries,
\* exactly the oldest entry (the first of the list) is evicted and the new
\* entry is kept, so that 5 entries remain.
\* (Refuted under SpecCap through the race of C1: a login that loaded 4
\* entries pushes a sixth onto the 5 that are stored by then.)
C6_FifoEviction ==
    [][\A p \in Procs :
          (/\ req[p].pc = "issueSave" /\ req'[p].pc = "idle" /\ res'.status = 200
           /\ Len(db[req[p].doc.uid].refreshTokens) = MaxRefreshTokens)
             => /\ Len(db'[req[p].doc.uid].refreshTokens) = MaxRefreshTokens
                /\ db'[req[p].doc.uid].refreshTokens =
                       Append(Tail(db[req[p].doc.uid].refreshTokens),
                              FindEntry(db'[req[p].doc.uid].refreshTokens, req[p].newTok))]_vars

\* ---------------------------------------------------------------- C7
\* C7: no step persists half of a rotation: while a refreshToken request
\* that presented T and drew the replacement N is in flight, a step records
\* N exactly when it removes T, also when the request fails or stops at any
\* point; N is never stored next to T.
C7_NoHalfRotation ==
    [][\A p \in Procs :
          (req[p].op = "refresh" /\ req[p].pc = "issueSave")
             => /\ req[p].newTok \notin Held(db)
                /\ req[p].newTok \in Held(db') => req[p].tok \notin Held(db')
                /\ req'[p] # req[p]
                       => ((req[p].tok \in Held(db) /\ req[p].tok \notin Held(db'))
                              <=> req[p].newTok \in Held(db'))]_vars

\* a rotation was persisted while another refresh of the same token was in
\* flight: the presented token is gone and its replacement is stored
C7_Witness ==
    /\ res.op = "refresh" /\ res.status = 200
    /\ res.tok \notin Held(db) /\ res.refreshToken \in Held(db)
    /\ res.raced

\* ---------------------------------------------------------------- C8
\* C8: a refreshToken request presenting a stored token whose expiresAt <= now
\* (the instant expiresAt = now included) is not rotated: its entry is
\* filtered out and saved, and the request is answered 403 with the entry
\* gone from the list.
\* (Refuted: at expiresAt = now the code takes the token for valid and
\* rotates it.)
C8_ExpiredRejected ==
    [][\A p \in Procs :
          /\ (/\ req[p].pc = "idle" /\ req'[p].op = "refresh"
              /\ EntryOf(db, req'[p].tok).expiresAt <= now)
                 => req'[p].pc = "cleanupSave"
          /\ (req[p].pc = "cleanupSave" /\ req'[p].pc = "idle")
                 => res'.status = 403 /\ req[p].tok \notin Held(db')]_vars

\* ---------------------------------------------------------------- C9
\* what the client sees of a response
Visible(r) == [status |-> r.status, message |-> r.message, refreshToken |-> r.refreshToken]

\* C9: a login with an email no user has and a login with an existing email
\* and a wrong password get the same response, 401 with the same message,
\* and neither changes the collection.
C9_LoginUniform ==
    [][(res'.op = "login" /\ res'.branch \in {"noUser", "badPassword"})
          => /\ Visible(res') =
                    [status |-> 401, message |-> MsgCredentials, refreshToken |-> NoTok]
             /\ db' = db]_vars

\* a wrong password for the registered account was turned away while the
\* other email is unknown
C9_Witness ==
    /\ res.op = "login" /\ res.branch = "badPassword" /\ res.status = 401
    /\ FindByEmail("a@x.com") # 0 /\ FindByEmail("b@x.com") = 0
    /\ Held(db) # {}

\* ---------------------------------------------------------------- C10
\* C10: a logout that supplies a token value is always answered with the
\* same empty 200, whether or not the value matches a stored entry, and
\* leaves the collection as it is when nothing matches.
\* (Refuted: the save() of a logout whose token matched rejects with a
\* VersionError when another request wrote to the user in between, and the
\* catch answers 500.)
C10_LogoutUniform ==
    [][(res'.op = "logout" /\ res'.tok # NoTok)
          => /\ res'.status = 200 /\ res'.message = MsgNone
             /\ res'.tok \notin Held(db) => db' = db]_vars

\* ---------------------------------------------------------------- C11
\* C11: a register request whose email is present in the collection when its
\* store operation runs is answered 409 and adds no user, also when it lost
\* the race against a concurrent register of the same email; a register that
\* is not turned away adds exactly one user.
\* (Refuted: the loser of the race passed findOne, its save() is rejected by
\* the unique index and the catch answers 500.)
C11_RegisterConflict ==
    [][/\ (res'.op = "register" /\ req' = req) => res'.status = 409 /\ db' = db
       /\ \A p \in Procs :
             (req[p].op = "register" /\ req[p].pc = "insert" /\ req'[p] # req[p])
                => IF FindByEmail(req[p].doc.email) # 0
                   THEN res'.status = 409 /\ db' = db
                   ELSE Len(db') = Len(db) + 1]_vars

\* ---------------------------------------------------------------- C12
\* C12: in every reachable state no two distinct user documents have the
\* same email.
C12_EmailUnique ==
    \A u \in 1..Len(db), w \in 1..Len(db) : u # w => db[u].email # db[w].email

\* two accounts exist and the unique index has just turned away the second
\* insert of a register race
C12_Witness ==
    /\ res.op = "register" /\ res.branch = "duplicateKey"
    /\ Len(db) = 2

\* ---------------------------------------------------------------- C13
\* C13: the stored password is the registered one hashed exactly once; no
\* save of register's token issue, login, refreshToken or logout changes it,
\* and a login presenting the registered password always passes
\* comparePassword.
C13_HashedOnce ==
    /\ [](\A u \in 1..Len(db) :
             \E w \in RegisterPasswords : db[u].password = bcryptHash(Plain(w)))
    /\ [][/\ \A u \in 1..Len(db) : db'[u].password = db[u].password
          /\ \A p \in Procs :
                (/\ req[p].op = "login" /\ req[p].pc = "compare"
                 /\ req[p].password \in RegisterPasswords
                 /\ req'[p] # req[p])
                   => req'[p].pc = "issueSave"]_vars

\* a login was answered 200 after the saves of register, a rotation and a
\* logout were applied to the account
C13_Witness ==
    /\ res.op = "login" /\ res.status = 200
    /\ rotated # {}
    /\ \E u \in 1..Len(db) : db[u].v >= 4

\* ---------------------------------------------------------------- C14
\* C14: a login with the registered credentials that follows a successful
\* register with nothing in between passes comparePassword and is answered
\* 200 with a refresh token different from the one register returned, and
\* the user's list then holds exactly these two.
C14_LoginAfterRegister ==
    [][\A p \in Procs :
          /\ (/\ req[p].op = "login" /\ req[p].pc = "compare"
              /\ req[p].password \in RegisterPasswords
              /\ req'[p] # req[p])
                 => req'[p].pc = "issueSave" /\ req'[p].newTok \notin Held(db)
          /\ (/\ req[p].op = "login" /\ req[p].pc = "issueSave"
              /\ req'[p] # req[p]
              /\ req[p].doc.v = 1 /\ db[req[p].doc.uid].v = 1)
                 => LET u == req[p].doc.uid
                        registered == db[u].refreshTokens[1].token
                    IN  /\ res'.op = "login" /\ res'.status = 200
                        /\ res'.refreshToken # registered
                        /\ Len(db'[u].refreshTokens) = 2
                        /\ TokenValues(db'[u].refreshTokens) =
                               {registered, res'.refreshToken}]_vars

\* the first login of an account was answered 200 and its list holds the
\* token of register and the token of this login
C14_Witness ==
    /\ res.op = "login" /\ res.status = 200
    /\ \E u \in 1..Len(db) :
          /\ db[u].v = 2 /\ Len(db[u].refreshTokens) = 2
          /\ db[u].refreshTokens[2].token = res.refreshToken
          /\ db[u].refreshTokens[1].token # res.refreshToken

C16_RefreshTaxonomy ==
    [][/\ (res'.op = "refresh" /\ res'.tok = NoTok)
             => res'.status = 401 /\ db' = db /\ req' = req
       /\ (res'.op = "refresh" /\ res'.tok # NoTok /\ req' = req)
             => /\ res'.tok \notin Held(db)
                /\ Visible(res') =
                       [status |-> 403, message |-> MsgRefreshNotFound,
                        refreshToken |-> NoTok]
       /\ \A p \in Procs :
             (req[p].pc = "cleanupSave" /\ req'[p] # req[p])
                => Visible(res') =
                       [status |-> 403, message |-> MsgRefreshNotFound,
                        refreshToken |-> NoTok]]_vars

\* ---------------------------------------------------------------- C17
\* the part of the header that isAuthenticated verifies
Presented(header) == IF Len(header) >= 2 THEN header[2] ELSE Word("")

\* C17: a protected request whose access token carries the right signature
\* and an exp that is not after now is answered 403; the handler does not
\* run and req.user is not set.
C17_ExpiredAccessRejected ==
    (/\ res.op = "getMe"
     /\ Presented(res.header).text = "jwt"
     /\ Presented(res.header).exp <= now)
        => res.status = 403 /\ ~res.handlerRan /\ res.user = 0

\* a correctly signed Bearer token was turned away at the instant of its exp
C17_Witness ==
    /\ res.op = "getMe" /\ res.status = 403
    /\ Len(res.header) = 2 /\ res.header[1].text = "Bearer"
    /\ res.header[2] \in SignedTokens
    /\ res.header[2].exp = now

\* ---------------------------------------------------------------- C18
\* C18: a protected request whose access token carries the right signature
\* and has not reached exp passes isAuthenticated with req.user set to the
\* token's user, whatever the refresh tokens of that user are by then.
C18_AccessNotRevocable ==
    (/\ res.op = "getMe"
     /\ Len(res.header) = 2 /\ res.header[1].text = "Bearer"
     /\ res.header[2].text = "jwt" /\ res.header[2].sig = "JWT_SECRET"
     /\ now < res.header[2].exp)
        => res.handlerRan /\ res.user = res.header[2].userId

\* the access token of a user passed after a rotation and a logout had left
\* that user without any refresh token
C18_Witness ==
    /\ res.op = "getMe" /\ res.handlerRan /\ res.status = 200
    /\ res.user \in 1..Len(db)
    /\ db[res.user].refreshTokens = <<>>
    /\ rotated # {}

\* ---------------------------------------------------------------- C19
\* a header of the form "Bearer <token>"
BearerForm(header) ==
    Len(header) = 2 /\ header[1].text = "Bearer" /\ header[2].text # ""

\* C19: a protected request without Authorization header, or with one that
\* is not of the form "Bearer <token>", is answered 401; one of that form
\* whose token has a wrong signature or is expired is answered 403; the
\* handler runs in neither case.
\* (Refuted: the scheme is never looked at; "Basic <token>" with a valid
\* access token passes, and with an invalid one is answered 403.)
C19_BearerConvention ==
    res.op = "getMe"
        => /\ ~BearerForm(res.header) => res.status = 401 /\ ~res.handlerRan
           /\ (BearerForm(res.header) /\ ~jwtVerify(res.header[2], now))
                  => res.status = 403 /\ ~res.handlerRan

\* ---------------------------------------------------------------- C20
\* C20: a logout without a token is answered 400 in the step it arrives in,
\* before any store operation, and changes nothing; no logout that supplies
\* a token is answered with a 4xx.
C20_LogoutNoToken ==
    [][res'.op = "logout"
          => /\ res'.tok = NoTok
                    => /\ res'.status = 400 /\ res'.message = MsgLogoutNoToken
                       /\ db' = db /\ req' = req
             /\ res'.status \in 400..499 => res'.tok = NoTok]_vars

\* a logout without a token was answered 400 while tokens were stored and
\* another request was waiting for the store
C20_Witness ==
    /\ res.op = "logout" /\ res.tok = NoTok /\ res.status = 400
    /\ Held(db) # {}
    /\ \E p \in Procs : req[p].pc # "idle"

\* ---------------------------------------------------------------- C21
\* C21: a request of register, login, refreshToken, logout or getMe whose
\* store operation fails is answered 500 with one of the fixed messages and
\* nothing else in the body, writes nothing, and is over: no other response
\* follows for it.
C21_StoreFailureMapping ==
    [][res'.branch \in {"storeUnavailable", "versionError", "duplicateKey"}
          => /\ res'.status = 500
             /\ res'.message \in {MsgInternal, MsgRefreshInternal}
             /\ res'.refreshToken = NoTok /\ res'.userPaths = {}
             /\ db' = db
             /\ \A p \in Procs : req'[p] # req[p] => req'[p] = Idle]_vars

\* the findById of an authenticated GET /auth/me failed while the account
\* held a session
C21_Witness ==
    /\ res.op = "getMe" /\ res.branch = "storeUnavailable" /\ res.status = 500
    /\ res.handlerRan
    /\ Held(db) # {}

\* ---------------------------------------------------------------- C22
\* C22: when a register request ends with an error response, the collection
\* holds no user document that this request inserted.
\* (Refuted: register inserts the user with its first save(); when the save()
\* of generateRefreshToken then fails, the catch answers 500 and the user
\* stays, so that the retry is answered 409.)
C22_RegisterAllOrNothing ==
    [][\A p \in Procs :
          (/\ req[p].op = "register" /\ req[p].pc = "issueSave"
           /\ req'[p] = Idle /\ res'.status # 200)
             => req[p].doc.uid \notin 1..Len(db')]_vars

\* ---------------------------------------------------------------- C23
\* C23: an authenticated GET /orders/my is handled by getUserOrders, which
\* answers 200 with the caller's own orders, the newest first.
\* (Refuted: /:id is registered before /my, so that getOrderDetails takes the
\* request with id "my"; findById rejects with a CastError and the catch
\* answers 500.)
C23_MyOrdersDispatch ==
    (res.shop.method = "GET" /\ res.shop.path = <<"my">> /\ res.handlerRan)
        => /\ res.shop.handler = "getUserOrders"
           /\ res.status = 200
           /\ res.shop.orderIds = OrdersOf(res.user, Len(orders))

\* ---------------------------------------------------------------- C24
\* C24: createStore, for an authenticated user whose role is store or admin,
\* who owns no store and sends every mandatory field, saves a store owned by
\* that user and answers 201; for a user of any other role it answers 403
\* and saves nothing.
\* (Refuted: isAuthenticated puts only userId on the request, so that the
\* role createStore reads is undefined and every user is answered 403.)
C24_StoreCreationByRole ==
    [][(res'.shop.handler = "createStore" /\ res'.handlerRan)
          => LET u == res'.user
             IN  /\ (/\ db[u].role \in {"store", "admin"}
                     /\ ~\E k \in 1..Len(stores) : stores[k].owner = u
                     /\ res'.shop.body.storeName # "")
                        => /\ res'.status = 201
                           /\ Len(stores') = Len(stores) + 1
                           /\ stores'[Len(stores')].owner = u
                 /\ db[u].role \notin {"store", "admin"}
                        => res'.status = 403 /\ stores' = stores]_vars

\* ---------------------------------------------------------------- C25
\* the roles that may change the status of an order
StatusRoles == {"store", "courier", "admin"}

\* the role stored for a requester
RoleOf(u) == IF u \in 1..Len(db) THEN db[u].role ELSE "none"

\* C25 as stated: the status of an order changes only through
\* updateOrderStatus for a requester whose stored role is store, courier or
\* admin; every other requester is answered 403 with the orders unchanged;
\* the status of every order is one of the six of the enum.
\* (Refuted as stated: a requester of role client who sends no status is
\* answered 400.)
C25_StatusAuthorization ==
    /\ [](\A k \in 1..Len(orders) : orders[k].status \in OrderStatuses)
    /\ [][/\ (\E k \in 1..Len(orders) : orders'[k].status # orders[k].status)
                => /\ res'.shop.handler = "updateOrderStatus"
                   /\ RoleOf(res'.user) \in StatusRoles
          /\ (/\ res'.shop.handler = "updateOrderStatus" /\ res'.handlerRan
              /\ RoleOf(res'.user) \notin StatusRoles)
                => res'.status = 403 /\ orders' = orders]_vars

\* C25, amended: the same, where the 403 is claimed for the requests that
\* carry a status (one without is answered 400, whoever sends it, with the
\* orders unchanged).
C25_StatusAuthorizationWithStatus ==
    /\ [](\A k \in 1..Len(orders) : orders[k].status \in OrderStatuses)
    /\ [][/\ (\E k \in 1..Len(orders) : orders'[k].status # orders[k].status)
                => /\ res'.shop.handler = "updateOrderStatus"
                   /\ RoleOf(res'.user) \in StatusRoles
          /\ (/\ res'.shop.handler = "updateOrderStatus" /\ res'.handlerRan
              /\ RoleOf(res'.user) \notin StatusRoles)
                => /\ orders' = orders
                   /\ res'.status = IF res'.shop.body.status = "" THEN 400 ELSE 403]_vars

\* a client was answered 403 for an order that a permitted role had moved to
\* DELIVERED before
C25_Witness ==
    /\ res.shop.handler = "updateOrderStatus" /\ res.status = 403
    /\ res.shop.body.status = "CONFIRMED"
    /\ RoleOf(res.user) = "client"
    /\ \E k \in 1..Len(orders) :
          orders[k].status = "DELIVERED" /\ res.shop.path = <<OrderIdOf[k], "status">>

\* ---------------------------------------------------------------- C26
\* C26: for an order that exists, getOrderDetails answers 200 with the order
\* exactly when the authenticated user is the order's client, and 403 for
\* every other requester; for an id that no order has it answers 404.
\* (Refuted: client is populated before the comparison, so that
\* order.client.toString() is never the user id and the client of the order
\* is answered 403 as well.)
C26_OrderOwnership ==
    (/\ res.shop.handler = "getOrderDetails" /\ res.handlerRan
     /\ IsObjectId(res.shop.path[1]))
        => LET k == FindOrder(res.shop.path[1])
           IN  IF k = 0 THEN res.status = 404
               ELSE /\ (res.status = 200 /\ res.shop.orderId = res.shop.path[1])
                           <=> orders[k].client._id = res.user
                    /\ orders[k].client._id # res.user => res.status = 403

\* ---------------------------------------------------------------- C27
\* C27: createOrder for an authenticated user answers 400 and stores nothing
\* when the body lacks storeId or deliveryAddress or has no items (items left
\* out or empty); with all three it stores exactly one order, with status
\* PENDING, the user as client and the sum of quantity * price as
\* totalAmount, and answers 201.
\* (Refuted: for a body without items, items.length throws before the try;
\* no 400 is sent.)
C27_CreateOrderValidation ==
    [][(res'.shop.handler = "createOrder" /\ res'.handlerRan)
          => LET body == res'.shop.body
             IN  IF \/ body.storeId = "" \/ body.deliveryAddress = ""
                    \/ ~body.hasItems \/ body.items = <<>>
                 THEN res'.status = 400 /\ orders' = orders
                 ELSE /\ res'.status = 201
                      /\ Len(orders') = Len(orders) + 1
                      /\ \A k \in 1..Len(orders) : orders'[k] = orders[k]
                      /\ orders'[Len(orders')].status = "PENDING"
                      /\ orders'[Len(orders')].client._id = res'.user
                      /\ orders'[Len(orders')].totalAmount = TotalAmount(body.items)]_vars

====
